---- MODULE Spec2Model ----
(***************************************************************************)
(* Relevance-ranked product search of the GoGreen backend                  *)
(* (ProductModel.search, src/src/models/product.model.ts) and the          *)
(* GET /api/products handler that calls it, over a product table that the  *)
(* catalog statements (create, update, toggleActive, delete) change; and   *)
(* the product routes that change the catalog (POST /, PATCH /:id,         *)
(* PATCH /:id/toggle, PATCH /:id/featured, DELETE /:id), each handler a    *)
(* sequence of awaited store calls that interleaves with the others and    *)
(* ends with an audit log entry.                                           *)
(*                                                                         *)
(* Text is a sequence of one-character strings.  The store's operators     *)
(* that the query composes (LOWER, LIKE, to_tsvector/plainto_tsquery/@@,   *)
(* ts_rank, similarity, word_similarity) are computed on that text as      *)
(* PostgreSQL computes them; ts_rank is kept to what the claims read: the  *)
(* fields of the document it is given, their weights, and a rank of 0 when *)
(* no lexeme of the query occurs in that document.                         *)
(***************************************************************************)
EXTENDS Integers, Sequences, FiniteSets, TLC

VARIABLES
  products,  \* the products table: a set of rows with distinct ids
  pc,        \* where the GET /api/products handler is
  req,       \* the request it is serving: search text and includeInactive
  nQueries,  \* queries the current invocation of search has issued
  rows,      \* what search returned to the handler
  resp,      \* the response the handler sent
  last,      \* the last answered search on the table as it is now
  nMutations, \* catalog statements run so far
  failure,   \* the error the store raised and the one the handler caught
  audit,     \* the audit_logs table: the entries in the order written
  handlers,  \* the product-route requests in progress, one per connection
  nRequests, \* requests to the product and post routes received so far
  posts,     \* the posts table: a set of rows with distinct ids and slugs
  editors,   \* the post-route requests in progress, one per connection
  clock,     \* the time of the latest timestamp taken
  serial     \* the last value of the sequence behind posts.id

vars == <<products, pc, req, nQueries, rows, resp, last, nMutations,
          failure, audit, handlers, nRequests, posts, editors, clock, serial>>

\* What the post routes add to the state.
postVars == <<posts, editors, clock, serial>>

\* What the product routes add to the state of the search handler.
routeVars == <<audit, handlers, nRequests, postVars>>

\* ------------------------------------------------------------------ bounds

\* Number of product rows the table can hold in the model.
MaxProducts == 2

\* Number of catalog statements (create, update, toggle, delete) in a run.
MaxMutations == 2

\* Number of requests to the product routes in a run.
MaxRequests == 3

\* SQL NULL of a nullable text column.
NULL == <<"NULL">>

\* ------------------------------------------------------------------- text

\* The upper-case letters and what LOWER makes of them.
ToLower ==
  [A |-> "a", B |-> "b", C |-> "c", D |-> "d", E |-> "e", F |-> "f", G |-> "g",
   H |-> "h", I |-> "i", J |-> "j", K |-> "k", L |-> "l", M |-> "m", N |-> "n",
   O |-> "o", P |-> "p", Q |-> "q", R |-> "r", S |-> "s", T |-> "t", U |-> "u",
   V |-> "v", W |-> "w", X |-> "x", Y |-> "y", Z |-> "z"]

UpperLetters == DOMAIN ToLower
LowerLetters == {ToLower[c] : c \in UpperLetters}
Digits == {"0", "1", "2", "3", "4", "5", "6", "7", "8", "9"}

\* The characters LOWER changes.
LowerChar(c) == IF c \in UpperLetters THEN ToLower[c] ELSE c

\* SQL LOWER(text).
Lower(s) == [i \in 1..Len(s) |-> LowerChar(s[i])]

\* COALESCE(column, '').
Coalesce(s) == IF s = NULL THEN <<>> ELSE s

\* Letters and digits (isalnum): what the trigram extractor and the text
\* search parser take as part of a word.
IsWordChar(c) == c \in UpperLetters \cup LowerLetters \cup Digits

\* SQL  s LIKE p  with PostgreSQL's default escape character: % matches any
\* run of characters, _ any one character, and a backslash makes the next
\* pattern character literal.  (A pattern ending in a lone backslash is an
\* error in PostgreSQL; the patterns built here always end in %.)
RECURSIVE Like(_, _)
Like(s, p) ==
  IF p = <<>> THEN s = <<>>
  ELSE IF Head(p) = "%" THEN Like(s, Tail(p)) \/ (s # <<>> /\ Like(Tail(s), p))
  ELSE IF Head(p) = "_" THEN s # <<>> /\ Like(Tail(s), Tail(p))
  ELSE IF Head(p) = "\\"
       THEN /\ Len(p) >= 2
            /\ s # <<>>
            /\ Head(s) = p[2]
            /\ Like(Tail(s), Tail(Tail(p)))
  ELSE s # <<>> /\ Head(s) = Head(p) /\ Like(Tail(s), Tail(p))

\* The words of a text in order: its maximal runs of word characters.
RECURSIVE SplitWords(_, _, _)
SplitWords(s, cur, acc) ==
  IF s = <<>> THEN (IF cur = <<>> THEN acc ELSE Append(acc, cur))
  ELSE IF IsWordChar(Head(s)) THEN SplitWords(Tail(s), Append(cur, Head(s)), acc)
  ELSE SplitWords(Tail(s), <<>>, IF cur = <<>> THEN acc ELSE Append(acc, cur))

Words(s) == SplitWords(s, <<>>, <<>>)

\* pg_trgm: each word is padded with two blanks before and one after, and
\* every three consecutive characters of it are a trigram.
WordTrigrams(w) ==
  LET padded == <<" ", " ">> \o w \o <<" ">>
  IN  [k \in 1..(Len(w) + 1) |-> SubSeq(padded, k, k + 2)]

\* The trigrams of a text in the order of the text.
RECURSIVE ConcatTrigrams(_)
ConcatTrigrams(ws) ==
  IF ws = <<>> THEN <<>> ELSE WordTrigrams(Head(ws)) \o ConcatTrigrams(Tail(ws))

TrigramSeq(s) == ConcatTrigrams(Words(s))

TrigramSet(s) == {TrigramSeq(s)[i] : i \in 1..Len(TrigramSeq(s))}

\* A ratio count / total as a record; pg_trgm's CALCSML gives 0 when no
\* trigram is shared.
Ratio(n, d) == IF n = 0 THEN [num |-> 0, den |-> 1] ELSE [num |-> n, den |-> d]

\* similarity(a, b): shared trigrams over all trigrams of both.
Similarity(a, b) ==
  LET ta == TrigramSet(a)
      tb == TrigramSet(b)
      c  == Cardinality(ta \cap tb)
  IN  Ratio(c, Cardinality(ta) + Cardinality(tb) - c)

\* The sign of a/b - c/d for positive b and d, by whole parts and then the
\* remainders' reciprocals, so that no product of the four is formed.
RECURSIVE RatioCompare(_, _, _, _)
RatioCompare(a, b, c, d) ==
  LET qa == a \div b
      qc == c \div d
      ra == a % b
      rc == c % d
  IN  IF qa # qc THEN (IF qa > qc THEN 1 ELSE 0 - 1)
      ELSE IF ra = 0 \/ rc = 0
           THEN (IF ra > rc THEN 1 ELSE IF ra < rc THEN 0 - 1 ELSE 0)
      ELSE RatioCompare(d, rc, b, ra)

\* a/b >= c/d and a/b > c/d for ratios with positive denominators.
RatioGE(r, s) == RatioCompare(r.num, r.den, s.num, s.den) >= 0
RatioGT(r, s) == RatioCompare(r.num, r.den, s.num, s.den) > 0

\* word_similarity(a, b): the greatest similarity between the trigram set
\* of a and a continuous extent of the ordered trigrams of b.
WordSimilarity(a, b) ==
  LET ta == TrigramSet(a)
      sb == TrigramSeq(b)
      ext(l, u) == {sb[i] : i \in l..u}
      sim(l, u) == LET c == Cardinality(ta \cap ext(l, u))
                   IN  Ratio(c, Cardinality(ta) + Cardinality(ext(l, u)) - c)
      all == {sim(l, u) : l \in 1..Len(sb), u \in 1..Len(sb)}
  IN  IF all = {} THEN Ratio(0, 1)
      ELSE CHOOSE r \in all : \A o \in all : RatioGE(r, o)

\* ------------------------------------------------------- full-text search

\* to_tsvector('english', text) with setweight(_, w): the lexemes of the
\* text, each carrying the weight label.  (No word of the model's texts is
\* a stop word; the stemmer changes none of the words a query of the model
\* holds, and changes a word of a product the same way wherever it occurs.)
TsVector(text, w) ==
  LET ws == Words(Lower(text))
  IN  {[lexeme |-> ws[i], weight |-> w] : i \in 1..Len(ws)}

\* plainto_tsquery('english', query): the lexemes of the query, all of
\* which a matching document must hold.
TsQuery(query) ==
  LET ws == Words(Lower(query)) IN {ws[i] : i \in 1..Len(ws)}

\* document @@ tsquery; an empty tsquery matches nothing.
TsMatch(doc, tq) ==
  /\ tq # {}
  /\ \A t \in tq : \E e \in doc : e.lexeme = t

\* The document of match strategy 2: name A, description B, short
\* description C.
MatchDocument(p) ==
  TsVector(p.name, "A") \cup TsVector(Coalesce(p.description), "B")
    \cup TsVector(Coalesce(p.shortDescription), "C")

\* The document ts_rank is given in the ORDER BY: name A, description B.
RankDocument(p) ==
  TsVector(p.name, "A") \cup TsVector(Coalesce(p.description), "B")

\* ts_rank(document, tsquery) in hundredths: a lexeme of the query adds the
\* weight of each field of the document it occurs in (A 1.0, B 0.4, C 0.2,
\* scaled by 0.6); 0 when no lexeme of the query is in the document.
RECURSIVE SumWeights(_)
SumWeights(es) ==
  IF es = {} THEN 0
  ELSE LET e == CHOOSE x \in es : TRUE
           w == CASE e.weight = "A" -> 60 [] e.weight = "B" -> 24 [] OTHER -> 12
       IN  w + SumWeights(es \ {e})

TsRank(doc, tq) == SumWeights({e \in doc : e.lexeme \in tq})

\* ---------------------------------------------------- ProductModel.search

\* const searchPattern = `%${query}%`
SearchPattern(query) == <<"%">> \o query \o <<"%">>

\* query || '%' of the prefix term.
PrefixPattern(query) == query \o <<"%">>

SimilarityThreshold == [num |-> 2, den |-> 10]
WordSimilarityThreshold == [num |-> 3, den |-> 10]


\* Mutants of the active filter: one that is never applied, and one that
\* turns includeInactive into "only inactive".
ActiveFilterDropped(p, includeInactive) == TRUE
ActiveFilterOnlyInactive(p, includeInactive) ==
  IF includeInactive THEN ~p.isActive ELSE p.isActive

\* includeInactive ? undefined : eq(products.isActive, true)
ActiveFilter(p, includeInactive) == includeInactive \/ p.isActive

\* Strategy 1: LOWER(column) LIKE LOWER(searchPattern) on the three columns.
PatternMatch(p, query) ==
  LET pat == Lower(SearchPattern(query))
  IN  \/ Like(Lower(p.name), pat)
      \/ Like(Lower(Coalesce(p.description)), pat)
      \/ Like(Lower(Coalesce(p.shortDescription)), pat)

\* Strategy 2: the weighted document @@ plainto_tsquery(query).
FullTextMatch(p, query) == TsMatch(MatchDocument(p), TsQuery(query))

\* Strategy 3: similarity(LOWER(name), LOWER(query)) > 0.2
TrigramMatch(p, query) ==
  RatioGT(Similarity(Lower(p.name), Lower(query)), SimilarityThreshold)

\* Strategy 4: word_similarity(LOWER(query), LOWER(name)) > 0.3
WordMatch(p, query) ==
  RatioGT(WordSimilarity(Lower(query), Lower(p.name)), WordSimilarityThreshold)

\* Mutant of the WHERE clause: the two similarity strategies left out.
MatchesWithoutSimilarity(p, query) ==
  PatternMatch(p, query) \/ FullTextMatch(p, query)

\* The OR of the four strategies in the WHERE clause.
Matches(p, query) ==
  \/ PatternMatch(p, query)
  \/ FullTextMatch(p, query)
  \/ TrigramMatch(p, query)
  \/ WordMatch(p, query)

\* The weights of the ORDER BY expression.
ExactMatchPoints == 100
PrefixMatchPoints == 50
SubstringMatchPoints == 25
RankMultiplier == 10
TrigramMultiplier == 30
WordSimilarityMultiplier == 20

\* Mutant of the prefix term: a name that starts with the query loses the
\* points instead of gaining them.
PrefixTermPenalty(p, query) ==
  IF Like(Lower(p.name), Lower(query \o <<"%">>)) THEN 0 - PrefixMatchPoints ELSE 0

\* The three CASE terms of the ORDER BY expression.
ExactTerm(p, query) ==
  IF Lower(p.name) = Lower(query) THEN ExactMatchPoints ELSE 0

PrefixTerm(p, query) ==
  IF Like(Lower(p.name), Lower(PrefixPattern(query))) THEN PrefixMatchPoints ELSE 0

SubstringTerm(p, query) ==
  IF Like(Lower(p.name), Lower(SearchPattern(query))) THEN SubstringMatchPoints ELSE 0

\* The sum of the six terms as a ratio: bonus + rank/100 * 10 + sim * 30 +
\* wsim * 20 over the common denominator 100 * sim.den * wsim.den.
ScoreSum(bonus, rank, sim, wsim) ==
  [num |-> bonus * 100 * sim.den * wsim.den
             + RankMultiplier * rank * sim.den * wsim.den
             + TrigramMultiplier * sim.num * 100 * wsim.den
             + WordSimilarityMultiplier * wsim.num * 100 * sim.den,
   den |-> 100 * sim.den * wsim.den]

\* The ORDER BY expression of search.
SortKey(p, query) ==
  ScoreSum(ExactTerm(p, query) + PrefixTerm(p, query) + SubstringTerm(p, query),
           TsRank(RankDocument(p), TsQuery(query)),
           Similarity(Lower(p.name), Lower(query)),
           WordSimilarity(Lower(query), Lower(p.name)))

\* The rows the WHERE clause selects from a table.
Candidates(table, query, includeInactive) ==
  {p \in table : ActiveFilter(p, includeInactive) /\ Matches(p, query)}


\* Mutant of the sort direction: asc(key) in place of desc(key).
OrderedBeforeAscending(p, q, query) == RatioGE(SortKey(q, query), SortKey(p, query))

\* desc(key): a row may precede another when its key is not smaller.
OrderedBefore(p, q, query) == RatioGE(SortKey(p, query), SortKey(q, query))

\* Mutant of the empty answer: a query that selects no row is rejected.
SearchResultsNoMatchRejected(table, query, includeInactive) ==
  LET c == Candidates(table, query, includeInactive)
      n == Cardinality(c)
  IN  IF c = {} THEN {}
      ELSE {s \in [1..n -> c] :
              /\ \A i, j \in 1..n : i # j => s[i] # s[j]
              /\ \A i, j \in 1..n : i < j => OrderedBefore(s[i], s[j], query)}

\* Every sequence the store may return for SELECT ... ORDER BY key DESC: the
\* selected rows, each once, keys never increasing.  The statement names no
\* further sort column, so rows with equal keys come in any order.
SearchResults(table, query, includeInactive) ==
  LET c == Candidates(table, query, includeInactive)
      n == Cardinality(c)
  IN  {s \in [1..n -> c] :
         /\ \A i, j \in 1..n : i # j => s[i] # s[j]
         /\ \A i, j \in 1..n : i < j => OrderedBefore(s[i], s[j], query)}

\* ------------------------------------------------------------ input pools

Txy == <<"x", "y">>
TXy == <<"X", "y">>
Tz == <<"z">>
TWild == <<"x", "_">>
TBackslash == <<"\\">>

\* What a create request may carry: name and the two optional texts.
Contents ==
  { [name |-> Txy, description |-> NULL, shortDescription |-> NULL],
    [name |-> TXy, description |-> NULL, shortDescription |-> NULL],
    [name |-> Tz, description |-> Txy, shortDescription |-> NULL],
    [name |-> Tz, description |-> NULL, shortDescription |-> Txy],
    [name |-> TBackslash, description |-> NULL, shortDescription |-> NULL] }

\* A field an update request does not carry (undefined, dropped by cleanData).
Unset == <<"undefined">>

\* What an update request may carry.
Updates ==
  { [name |-> TXy, description |-> Unset, shortDescription |-> Unset],
    [name |-> Unset, description |-> Txy, shortDescription |-> Unset] }

TEmpty == <<>>
TBlank == <<" ">>

\* The search texts a request may carry; the empty text stands for an absent
\* parameter as well.
Queries == {Txy, TWild, TBackslash, TEmpty, TBlank}

ProductIds == 1..MaxProducts

\* The texts of the solar-panel scenario.
TSolarPanelX100 ==
  <<"S", "o", "l", "a", "r", " ", "P", "a", "n", "e", "l", " ", "X", "1", "0", "0">>
TSolarPanelAccessory ==
  <<"s", "o", "l", "a", "r", " ", "p", "a", "n", "e", "l", " ",
    "a", "c", "c", "e", "s", "s", "o", "r", "y">>
TWindTurbine == <<"W", "i", "n", "d", " ", "T", "u", "r", "b", "i", "n", "e">>
TSolarPanel == <<"s", "o", "l", "a", "r", " ", "p", "a", "n", "e", "l">>
TSlarPnel == <<"s", "l", "a", "r", " ", "p", "n", "e", "l">>

ScenarioNames == <<TSolarPanelX100, TSolarPanelAccessory, TWindTurbine>>
ScenarioIds == 1..Len(ScenarioNames)
ScenarioQueries == {TSolarPanel, TSlarPnel}

\* ------------------------------------------------------------------ state

Row(id, c, active) ==
  [id |-> id, name |-> c.name, description |-> c.description,
   shortDescription |-> c.shortDescription, isActive |-> active]

IdsOf(table) == {p.id : p \in table}

\* The tables the program can hold: rows with distinct ids.
Tables ==
  UNION { { {Row(id, f[id][1], f[id][2]) : id \in ids} :
              f \in [ids -> Contents \X BOOLEAN] } :
          ids \in SUBSET ProductIds }

\* The errors the store rejects a statement with when it is unavailable.
StoreErrors == {"ECONNREFUSED", "ETIMEDOUT"}

NoFailure == [raised |-> "none", caught |-> "none"]

\* The connections a product-route request can arrive on.
Connections == {"c1", "c2"}

\* req.user of a request that carries no valid token, and the users that
\* can be signed in.
NoUser == "none"
Users == {"admin"}

\* A JSON value where a handler reads a flag of the body: a boolean, a
\* string, or nothing (undefined).
JBoolean(b) == [type |-> "boolean", bool |-> b, text |-> ""]
JString(t) == [type |-> "string", bool |-> FALSE, text |-> t]
JUndefined == [type |-> "undefined", bool |-> FALSE, text |-> ""]

\* The slugs and the flags a request may carry.
Sa == <<"a">>
Sb == <<"b">>
Flags == {JBoolean(TRUE), JBoolean(FALSE), JUndefined, JString("false")}

Body(name, slug, flag) ==
  [name |-> name, description |-> Unset, shortDescription |-> Unset,
   slug |-> slug, flag |-> flag]

NoBody == Body(Unset, Unset, JUndefined)

\* What the bodies of POST /, of PATCH /:id, of PATCH /:id/toggle and of
\* PATCH /:id/featured may be.
CreateBodies == {Body(n, sl, JUndefined) : n \in {Txy, TEmpty, Unset}, sl \in {Sa, Sb}}
UpdateBodies ==
  {Body(n, Unset, JUndefined) : n \in {Tz, TEmpty}}
    \cup {Body(Unset, sl, JUndefined) : sl \in {Sa, Sb}}
ToggleBodies == {Body(Unset, Unset, v) : v \in Flags}
FeaturedBodies == {Body(Unset, Unset, JBoolean(v)) : v \in BOOLEAN}

NoReply == [status |-> 0, message |-> ""]

\* A connection with no request in progress.  Of a request in progress:
\* where its handler is, the route, req.user, the :id parameter (of POST /,
\* the id of the row it inserted), the body, the name getById read, the
\* response; and, for the record, whether its statement changed the
\* table, whether its slug was held by another product when the handler or
\* the store looked, the flag its statement left in the row, and the audit
\* entries it wrote.
Idle ==
  [pc |-> "idle", op |-> "none", user |-> NoUser, id |-> 0, body |-> NoBody,
   seen |-> <<>>, resp |-> NoReply, wrote |-> FALSE, clash |-> FALSE,
   stored |-> FALSE, logged |-> <<>>]

\* The tables of the scenario: any of its three products, each active or
\* not, none with a description.
ScenarioTables ==
  UNION { { {Row(id, [name |-> ScenarioNames[id], description |-> NULL,
                      shortDescription |-> NULL], f[id]) : id \in ids} :
              f \in [ids -> BOOLEAN] } :
          ids \in SUBSET ScenarioIds }

\* An absent subcategoryId parameter (undefined, falsy as the empty string
\* is), and the limit of the featured listing when the request names none.
NoSubcategory == ""
DefaultLimit == 10

NoReq ==
  [query |-> <<>>, includeInactive |-> FALSE, featured |-> FALSE,
   subcategoryId |-> NoSubcategory, limit |-> DefaultLimit]

\* A string of a post request that may be absent, and the published flag of
\* one, a boolean or absent.
Given(text) == [given |-> TRUE, text |-> text]
NotGiven == [given |-> FALSE, text |-> <<>>]

PostBody(title, slug, published) ==
  [title |-> title, slug |-> slug, published |-> published]

NoPostBody == PostBody(NotGiven, NotGiven, JUndefined)

\* A row of the posts table with the columns the routes read: id, slug,
\* published, published_at (the empty sequence for NULL, else the one
\* timestamp) and created_at.  title, content, coverImage, seoKeywords and
\* updatedAt are stored and returned but decide nothing.
Post(id, slug, published, publishedAt, createdAt) ==
  [id |-> id, slug |-> slug, published |-> published,
   publishedAt |-> publishedAt, createdAt |-> createdAt]

\* No row: what findFirst returns when nothing matches.
NoPost == Post(0, <<>>, FALSE, <<>>, 0)

NoPostReply == [status |-> 0, message |-> "", data |-> <<>>]

\* A connection with no post-route request in progress.
EditorIdle ==
  [pc |-> "idle", op |-> "none", identifier |-> <<>>, public |-> "",
   isPublic |-> FALSE,
   body |-> NoPostBody, seen |-> NoPost, clash |-> FALSE, wrote |-> FALSE,
   resp |-> NoPostReply]

\* No post is stored and no post-route request is in progress.
InitPosts ==
  /\ posts = {}
  /\ editors = [h \in Connections |-> EditorIdle]
  /\ clock = 0
  /\ serial = 0
NoResp == [status |-> 0, data |-> <<>>]
NoSearch == [valid |-> FALSE, query |-> <<>>, includeInactive |-> FALSE, rows |-> <<>>]

\* The server starts on an empty table with no request in progress.
Init ==
  /\ products = {}
  /\ pc = "idle"
  /\ req = NoReq
  /\ nQueries = 0
  /\ rows = <<>>
  /\ resp = NoResp
  /\ last = NoSearch
  /\ nMutations = 0
  /\ failure = NoFailure
  /\ audit = <<>>
  /\ handlers = [h \in Connections |-> Idle]
  /\ nRequests = 0
  /\ InitPosts

\* The server at any table it can hold, for the properties of search alone.
InitSearch ==
  /\ products \in Tables
  /\ pc = "idle"
  /\ req = NoReq
  /\ nQueries = 0
  /\ rows = <<>>
  /\ resp = NoResp
  /\ last = NoSearch
  /\ nMutations = 0
  /\ failure = NoFailure
  /\ audit = <<>>
  /\ handlers = [h \in Connections |-> Idle]
  /\ nRequests = 0
  /\ InitPosts

\* ------------------------------------------- GET /api/products?search=...


\* Mutant of the read: a search that also writes to the rows it reads.
TableAfterSelectWrites(table) == {[p EXCEPT !.isActive = FALSE] : p \in table}

\* What a SELECT leaves of the table it reads.
TableAfterSelect(table) == table


\* Mutant of the error path: the rejected query is issued again.
AfterStoreErrorRetry == "calling"

\* The handler's next step once the store has rejected the query: the
\* rejection propagates out of search into the handler's catch.
AfterStoreError == "failed"

\* What the caller of search catches when the store raises e: search has no
\* try/catch around its one awaited statement, so the rejection is the
\* store's own.
Rethrown(e) == e

\* Mutant of the catch: the error is swallowed into an empty success.
ErrorResponseSwallowed == [status |-> 200, data |-> <<>>]

\* catch: res.status(500).json({ error: 'Internal server error' })
ErrorResponse == [status |-> 500, data |-> <<>>]

\* if (searchQuery): a string is truthy unless it is empty (an absent
\* parameter is undefined, falsy as the empty string is).
Truthy(text) == text # <<>>

\* ProductModel.getAll: the rows the active filter admits, ordered by
\* displayOrder, a column the rows of the model do not carry: any order.
GetAll(table, includeInactive) ==
  LET c == {p \in table : ActiveFilter(p, includeInactive)}
      n == Cardinality(c)
  IN  {s \in [1..n -> c] : \A i, j \in 1..n : i # j => s[i] # s[j]}

\* The rows in their displayOrder, a column the rows of the model do not
\* carry: any order of the rows, cut to the limit.
Ordered(c, limit) ==
  LET n == IF Cardinality(c) < limit THEN Cardinality(c) ELSE limit
  IN  {s \in [1..n -> c] : \A i, j \in 1..n : i # j => s[i] # s[j]}

GetBySubcategoryIdUnfiltered(table, subcategoryId, includeInactive) ==
  Ordered({p \in table : p.subcategoryId = subcategoryId}, Cardinality(table))

\* ProductModel.getBySubcategoryId: the rows of the subcategory, the active
\* ones only unless includeInactive, ordered by displayOrder.
GetBySubcategoryId(table, subcategoryId, includeInactive) ==
  Ordered({p \in table : /\ p.subcategoryId = subcategoryId
                         /\ (includeInactive \/ p.isActive)},
          Cardinality(table))

\* ProductModel.getFeatured: the rows that are featured and active, ordered
\* by displayOrder, at most limit of them.
GetFeatured(table, limit) ==
  Ordered({p \in table : p.isFeatured /\ p.isActive}, limit)

\* The branch of the handler: if (searchQuery) ... else if (featured) ...
\* else if (subcategoryId) ... else.
Branch(r) ==
  IF Truthy(r.query) THEN "search"
  ELSE IF r.featured THEN "featured"
  ELSE IF r.subcategoryId # NoSubcategory THEN "subcategory"
  ELSE "all"

\* The handler reads its parameters and calls the model function of its
\* branch: ProductModel.search for a search, a listing otherwise.
ReceiveGet(query, includeInactive, featured, subcategoryId, limit) ==
  /\ pc = "idle"
  /\ req' = [query |-> query, includeInactive |-> includeInactive,
             featured |-> featured, subcategoryId |-> subcategoryId,
             limit |-> limit]
  /\ pc' = IF Branch(req') = "search" THEN "calling" ELSE "listing"
  /\ nQueries' = 0
  /\ rows' = <<>>
  /\ resp' = NoResp
  /\ failure' = NoFailure
  /\ UNCHANGED <<products, last, nMutations, routeVars>>

\* A request that names a search text or nothing but includeInactive: the
\* handler calls ProductModel.search when the text is truthy,
\* ProductModel.getAll otherwise.
Receive(query, includeInactive) ==
  /\ pc = "idle"
  /\ req' = [NoReq EXCEPT !.query = query,
                          !.includeInactive = includeInactive]
  /\ pc' = IF Truthy(query) THEN "calling" ELSE "listing"
  /\ nQueries' = 0
  /\ rows' = <<>>
  /\ resp' = NoResp
  /\ failure' = NoFailure
  /\ UNCHANGED <<products, last, nMutations, routeVars>>

\* The store runs the one statement of search and returns its rows.
StoreQueryOk ==
  /\ pc = "calling"
  /\ nQueries' = nQueries + 1
  /\ rows' \in SearchResults(products, req.query, req.includeInactive)
  /\ products' = TableAfterSelect(products)
  /\ pc' = "returned"
  /\ UNCHANGED <<req, resp, last, nMutations, failure, routeVars>>

\* The store runs the statement of the listing the branch calls
\* (getFeatured, getBySubcategoryId or getAll) and returns its rows.
ListQueryOk ==
  /\ pc = "listing"
  /\ nQueries' = nQueries + 1
  /\ rows' \in
       CASE Branch(req) = "featured" -> GetFeatured(products, req.limit)
         [] Branch(req) = "subcategory" ->
              GetBySubcategoryId(products, req.subcategoryId,
                                 req.includeInactive)
         [] OTHER -> GetAll(products, req.includeInactive)
  /\ pc' = "listed"
  /\ UNCHANGED <<products, req, resp, last, nMutations, failure, routeVars>>

\* The store is unavailable: the statement is rejected, and the rejection
\* leaves the model function for the handler's catch.
StoreQueryFail ==
  /\ pc \in {"calling", "listing"}
  /\ nQueries' = nQueries + 1
  /\ \E e \in StoreErrors : failure' = [raised |-> e, caught |-> Rethrown(e)]
  /\ pc' = AfterStoreError
  /\ UNCHANGED <<products, req, rows, resp, last, nMutations, routeVars>>

\* res.json({ success: true, data: products })
RespondOk ==
  /\ pc = "returned"
  /\ resp' = [status |-> 200, data |-> rows]
  /\ last' = [valid |-> TRUE, query |-> req.query,
              includeInactive |-> req.includeInactive, rows |-> rows]
  /\ pc' = "idle"
  /\ req' = NoReq
  /\ rows' = <<>>
  /\ UNCHANGED <<products, nQueries, nMutations, failure, routeVars>>

\* res.json({ success: true, data: products }) for the listing.
RespondList ==
  /\ pc = "listed"
  /\ resp' = [status |-> 200, data |-> rows]
  /\ pc' = "idle"
  /\ req' = NoReq
  /\ rows' = <<>>
  /\ UNCHANGED <<products, nQueries, last, nMutations, failure, routeVars>>

\* The catch of the handler answers the error.
RespondError ==
  /\ pc = "failed"
  /\ resp' = ErrorResponse
  /\ pc' = "idle"
  /\ req' = NoReq
  /\ UNCHANGED <<products, nQueries, rows, last, nMutations, failure, routeVars>>

SearchStep ==
  \/ \E q \in Queries, f \in BOOLEAN : Receive(q, f)
  \/ StoreQueryOk
  \/ ListQueryOk
  \/ StoreQueryFail
  \/ RespondOk
  \/ RespondList
  \/ RespondError

\* ------------------------------------------------------ catalog statements

\* ProductModel.create: INSERT with the column defaults (isActive true).
\* The new row takes the least id not in use.
CreateProduct(c) ==
  /\ nMutations < MaxMutations
  /\ Cardinality(products) < MaxProducts
  /\ LET id == CHOOSE i \in ProductIds \ IdsOf(products) :
                 \A j \in ProductIds \ IdsOf(products) : i <= j
     IN  products' = products \cup {Row(id, c, TRUE)}
  /\ last' = NoSearch
  /\ nMutations' = nMutations + 1
  /\ UNCHANGED <<pc, req, nQueries, rows, resp, failure, routeVars>>

\* .set({ ...data, updatedAt }): the fields the request carries replace
\* the row's.
Merge(p, data) ==
  [p EXCEPT
     !.name = IF data.name = Unset THEN @ ELSE data.name,
     !.description = IF data.description = Unset THEN @ ELSE data.description,
     !.shortDescription =
        IF data.shortDescription = Unset THEN @ ELSE data.shortDescription]

\* ProductModel.update
UpdateProduct(id, data) ==
  /\ nMutations < MaxMutations
  /\ \E p \in products :
       /\ p.id = id
       /\ products' = (products \ {p}) \cup {Merge(p, data)}
  /\ last' = NoSearch
  /\ nMutations' = nMutations + 1
  /\ UNCHANGED <<pc, req, nQueries, rows, resp, failure, routeVars>>

\* ProductModel.toggleActive
ToggleActive(id, isActive) ==
  /\ nMutations < MaxMutations
  /\ \E p \in products :
       /\ p.id = id
       /\ products' = (products \ {p}) \cup {[p EXCEPT !.isActive = isActive]}
  /\ last' = NoSearch
  /\ nMutations' = nMutations + 1
  /\ UNCHANGED <<pc, req, nQueries, rows, resp, failure, routeVars>>

\* ProductModel.delete
DeleteProduct(id) ==
  /\ nMutations < MaxMutations
  /\ \E p \in products :
       /\ p.id = id
       /\ products' = products \ {p}
  /\ last' = NoSearch
  /\ nMutations' = nMutations + 1
  /\ UNCHANGED <<pc, req, nQueries, rows, resp, failure, routeVars>>

Mutation ==
  \/ \E c \in Contents : CreateProduct(c)
  \/ \E id \in ProductIds, d \in Updates : UpdateProduct(id, d)
  \/ \E id \in ProductIds, b \in BOOLEAN : ToggleActive(id, b)
  \/ \E id \in ProductIds : DeleteProduct(id)

Next == SearchStep \/ Mutation

\* The server: searches interleaved with catalog statements.
Spec == Init /\ [][Next]_vars

\* Searches on a table that does not change.
SpecSearch == InitSearch /\ [][SearchStep]_vars

\* ---- The listing branches of GET /api/products ----

\* The subcategories of the listing, and the limits a request can name: none
\* (the default) or one row.
Subcategories == {"s1", "s2"}
Limits == {1, DefaultLimit}

\* The names of the listed products: xy, xyz, xyzz, ..., one per id.
ListingName(id) == Txy \o [i \in 1..(id - 1) |-> "z"]

\* A product row with the columns the listings filter on.
ListingRow(id, active, featured, subcategoryId) ==
  Row(id, [name |-> ListingName(id), description |-> NULL,
           shortDescription |-> NULL],
      active)
    @@ [isFeatured |-> featured, subcategoryId |-> subcategoryId]

\* The tables of the listing: rows with distinct ids, each active or not,
\* featured or not, in one of the subcategories.
ListingTables ==
  UNION { { {ListingRow(id, f[id][1], f[id][2], f[id][3]) : id \in ids} :
              f \in [ids -> BOOLEAN \X BOOLEAN \X Subcategories] } :
          ids \in SUBSET ProductIds }

InitListing ==
  /\ products \in ListingTables
  /\ pc = "idle"
  /\ req = NoReq
  /\ nQueries = 0
  /\ rows = <<>>
  /\ resp = NoResp
  /\ last = NoSearch
  /\ nMutations = 0
  /\ failure = NoFailure
  /\ audit = <<>>
  /\ handlers = [h \in Connections |-> Idle]
  /\ nRequests = 0
  /\ InitPosts

\* GET /api/products with every combination of its parameters.
ListingStep ==
  \/ \E q \in {TEmpty, Txy}, f, g \in BOOLEAN,
        c \in Subcategories \cup {NoSubcategory}, n \in Limits :
       ReceiveGet(q, f, g, c, n)
  \/ StoreQueryOk
  \/ ListQueryOk
  \/ StoreQueryFail
  \/ RespondOk
  \/ RespondList
  \/ RespondError

SpecListing == InitListing /\ [][ListingStep]_vars

\* The server at a table of the solar-panel scenario.
InitScenario ==
  /\ products \in ScenarioTables
  /\ pc = "idle"
  /\ req = NoReq
  /\ nQueries = 0
  /\ rows = <<>>
  /\ resp = NoResp
  /\ last = NoSearch
  /\ nMutations = 0
  /\ failure = NoFailure
  /\ audit = <<>>
  /\ handlers = [h \in Connections |-> Idle]
  /\ nRequests = 0
  /\ InitPosts

ScenarioStep ==
  \/ \E q \in ScenarioQueries, f \in BOOLEAN : Receive(q, f)
  \/ StoreQueryOk
  \/ StoreQueryFail
  \/ RespondOk
  \/ RespondError

\* Searches for the scenario's texts on a table of the scenario.
SpecScenario == InitScenario /\ [][ScenarioStep]_vars

\* ---------------------------------------------------------- product routes

\* What the product routes leave alone: the state of the search handler and
\* of the catalog statements, and the posts.
searchVars == <<pc, req, nQueries, rows, resp, nMutations, failure, postVars>>

\* isActive ? 'activated' : 'deactivated': JavaScript truthiness.
JsTruthy(v) == (v.type = "boolean" /\ v.bool) \/ (v.type = "string" /\ v.text # "")

\* What the store makes of the value bound to a boolean column: a boolean
\* as it is, a string by PostgreSQL's boolean input.
BooleanInput(v) ==
  CASE v.type = "boolean" -> (IF v.bool THEN "t" ELSE "f")
    [] v.type = "string" /\ v.text \in {"true", "t", "yes", "on", "1"} -> "t"
    [] v.type = "string" /\ v.text \in {"false", "f", "no", "off", "0"} -> "f"
    [] OTHER -> "invalid"

\* .set({ isActive, updatedAt }): a key whose value is undefined is left
\* out of the SET clause, so the column keeps its value.
SetFlag(old, v) == IF v.type = "undefined" THEN old ELSE BooleanInput(v) = "t"

\* Mutant of the validation: z.string() without .min(1).
NonEmptyStringUnchecked(v) == v # Unset

\* z.string().min(1)
NonEmptyString(v) == v # Unset /\ Len(v) >= 1

\* z.string().min(1).optional()
OptionalNonEmptyString(v) == v = Unset \/ NonEmptyString(v)

\* createProductSchema.parse and updateProductSchema.parse succeed (the
\* fields the rows of the model do not carry are taken as valid).
CreateProductSchema(body) == NonEmptyString(body.name) /\ NonEmptyString(body.slug)
UpdateProductSchema(body) ==
  OptionalNonEmptyString(body.name) /\ OptionalNonEmptyString(body.slug)

\* ProductModel.getBySlug and ProductModel.getById: the rows found.
GetBySlug(table, slug) == {p \in table : p.slug = slug}
GetById(table, id) == {p \in table : p.id = id}

\* slug ... .notNull().unique(): the statement that would leave row id
\* with a slug another row holds is rejected.
UniqueViolation(table, slug, id) == \E p \in table : p.slug = slug /\ p.id # id

\* The row ProductModel.create inserts: the request's name and slug, the
\* optional texts absent, the column defaults isActive true and isFeatured
\* false.
ProductRow(id, body) ==
  Row(id, [name |-> body.name, description |-> NULL, shortDescription |-> NULL], TRUE)
    @@ [slug |-> body.slug, isFeatured |-> FALSE]

\* The row ProductModel.update leaves: cleanData drops the absent fields,
\* the others replace the row's.
UpdatedRow(p, body) ==
  [Merge(p, body) EXCEPT !.slug = IF body.slug = Unset THEN @ ELSE body.slug]

SlugExists == "Product with this slug already exists"
NotFound == "Product not found"
InternalError == "Internal server error"

\* The handler has answered: the response is sent and the request's data
\* are gone; of a success the record keeps whose request it was and for
\* which product.
Done(r, status, message) ==
  [r EXCEPT !.pc = "done", !.resp = [status |-> status, message |-> message],
            !.body = NoBody, !.seen = <<>>,
            !.user = IF status = 200 THEN @ ELSE NoUser,
            !.id = IF status = 200 THEN @ ELSE 0]

\* The synchronous head of a handler: the req.user test, then the parse of
\* the body where the route has a schema, then the first awaited call.
Begin(h, op, user, id, body, valid, first) ==
  /\ nRequests < MaxRequests
  /\ nRequests' = nRequests + 1
  /\ LET r == [Idle EXCEPT !.op = op, !.user = user, !.id = id, !.body = body]
     IN  handlers' = [handlers EXCEPT ![h] =
           IF user = NoUser THEN Done(r, 401, "Not authenticated")
           ELSE IF ~valid THEN Done(r, 400, "Invalid input")
           ELSE [r EXCEPT !.pc = first]]
  /\ UNCHANGED <<products, audit, last, searchVars>>

\* POST /: the table of the model has room for the row.
PostProduct(h, user, body) ==
  /\ handlers[h].pc = "idle"
  /\ Cardinality(products)
       + Cardinality({k \in Connections : /\ handlers[k].op = "create"
                                          /\ handlers[k].pc \in {"check", "write"}})
       < MaxProducts
  /\ Begin(h, "create", user, 0, body, CreateProductSchema(body), "check")

\* PATCH /:id: the slug is looked up only if (data.slug).
PatchProduct(h, user, id, body) ==
  /\ handlers[h].pc = "idle"
  /\ Begin(h, "update", user, id, body, UpdateProductSchema(body),
           IF body.slug # Unset /\ body.slug # TEmpty THEN "check" ELSE "write")

\* PATCH /:id/toggle and PATCH /:id/featured: the body is not parsed.
PatchToggle(h, user, id, body) ==
  /\ handlers[h].pc = "idle"
  /\ Begin(h, "toggle", user, id, body, TRUE, "write")

PatchFeatured(h, user, id, body) ==
  /\ handlers[h].pc = "idle"
  /\ Begin(h, "featured", user, id, body, TRUE, "write")

\* DELETE /:id
DeleteRoute(h, user, id) ==
  /\ handlers[h].pc = "idle"
  /\ Begin(h, "delete", user, id, NoBody, TRUE, "lookup")

\* One awaited call of handler h has come back: r is what the handler
\* holds then, table the products table the call leaves.
Step(h, r, table) ==
  /\ handlers' = [handlers EXCEPT ![h] = r]
  /\ products' = table
  /\ last' = IF table = products THEN last ELSE NoSearch
  /\ UNCHANGED <<audit, nRequests, searchVars>>

\* await ProductModel.getBySlug(data.slug): POST / answers 400 when a row
\* has the slug, PATCH /:id when a row other than :id has it.
CheckSlug(h) ==
  LET r == handlers[h]
      existing == GetBySlug(products, r.body.slug)
      taken == IF r.op = "create" THEN existing # {}
               ELSE \E p \in existing : p.id # r.id
  IN  /\ r.pc = "check"
      /\ Step(h, IF taken THEN Done([r EXCEPT !.clash = TRUE], 400, SlugExists)
                 ELSE [r EXCEPT !.pc = "write"],
              products)

\* await ProductModel.getById(id) of DELETE /:id.
LookupProduct(h) ==
  LET r == handlers[h]
      found == GetById(products, r.id)
  IN  /\ r.pc = "lookup"
      /\ Step(h, IF found = {} THEN Done(r, 404, NotFound)
                 ELSE [r EXCEPT !.pc = "write",
                                !.seen = (CHOOSE p \in found : TRUE).name],
              products)

\* await ProductModel.create(...): the INSERT is rejected when a row holds
\* the slug; else the row is stored under the least id not in use.
WriteCreate(h) ==
  LET r == handlers[h]
      free == ProductIds \ IdsOf(products)
      id == CHOOSE i \in free : \A j \in free : i <= j
  IN  /\ r.pc = "write"
      /\ r.op = "create"
      /\ IF UniqueViolation(products, r.body.slug, 0)
         THEN Step(h, Done([r EXCEPT !.clash = TRUE], 500, InternalError), products)
         ELSE Step(h, [r EXCEPT !.pc = "audit", !.id = id, !.wrote = TRUE],
                   products \cup {ProductRow(id, r.body)})

\* await ProductModel.update(id, ...): null when no row has the id; the
\* UPDATE is rejected when it gives the row a slug another row holds.
WriteUpdate(h) ==
  LET r == handlers[h]
      found == GetById(products, r.id)
  IN  /\ r.pc = "write"
      /\ r.op = "update"
      /\ IF found = {} THEN Step(h, Done(r, 404, NotFound), products)
         ELSE IF r.body.slug # Unset /\ UniqueViolation(products, r.body.slug, r.id)
         THEN Step(h, Done([r EXCEPT !.clash = TRUE], 500, InternalError), products)
         ELSE Step(h, [r EXCEPT !.pc = "audit", !.wrote = TRUE],
                   (products \ found) \cup {UpdatedRow(p, r.body) : p \in found})

\* await ProductModel.toggleActive(id, isActive): the value is bound to the
\* column as the body gave it; false when no row has the id.
WriteToggle(h) ==
  LET r == handlers[h]
      found == GetById(products, r.id)
      new(p) == [p EXCEPT !.isActive = SetFlag(@, r.body.flag)]
  IN  /\ r.pc = "write"
      /\ r.op = "toggle"
      /\ IF r.body.flag.type # "undefined" /\ BooleanInput(r.body.flag) = "invalid"
         THEN Step(h, Done(r, 500, InternalError), products)
         ELSE IF found = {} THEN Step(h, Done(r, 404, NotFound), products)
         ELSE Step(h, [r EXCEPT !.pc = "audit", !.wrote = TRUE,
                                !.stored = new(CHOOSE p \in found : TRUE).isActive],
                   (products \ found) \cup {new(p) : p \in found})

\* await ProductModel.toggleFeatured(id, isFeatured)
WriteFeatured(h) ==
  LET r == handlers[h]
      found == GetById(products, r.id)
      new(p) == [p EXCEPT !.isFeatured = SetFlag(@, r.body.flag)]
  IN  /\ r.pc = "write"
      /\ r.op = "featured"
      /\ IF r.body.flag.type # "undefined" /\ BooleanInput(r.body.flag) = "invalid"
         THEN Step(h, Done(r, 500, InternalError), products)
         ELSE IF found = {} THEN Step(h, Done(r, 404, NotFound), products)
         ELSE Step(h, [r EXCEPT !.pc = "audit", !.wrote = TRUE,
                                !.stored = new(CHOOSE p \in found : TRUE).isFeatured],
                   (products \ found) \cup {new(p) : p \in found})

\* await ProductModel.delete(id): false when no row has the id any more.
WriteDelete(h) ==
  LET r == handlers[h]
      found == GetById(products, r.id)
  IN  /\ r.pc = "write"
      /\ r.op = "delete"
      /\ IF found = {} THEN Step(h, Done(r, 404, NotFound), products)
         ELSE Step(h, [r EXCEPT !.pc = "audit", !.wrote = TRUE], products \ found)

\* The store is unavailable: the awaited statement of the handler is
\* rejected and the catch answers 500.
StatementFails(h) ==
  /\ handlers[h].pc \in {"check", "lookup", "write"}
  /\ Step(h, Done(handlers[h], 500, InternalError), products)

\* Mutant of the audit entries: every route logs ActionType.UPDATE.
AuditActionAlwaysUpdate(op) == "update"

\* The ActionType each route passes to AuditLogModel.create.
AuditAction(op) ==
  CASE op = "create" -> "create"
    [] op = "delete" -> "delete"
    [] OTHER -> "update"

\* The word by which a toggle names the state it was asked for.
StateWord(op, flag) ==
  IF op = "toggle" THEN (IF JsTruthy(flag) THEN "activated" ELSE "deactivated")
  ELSE IF op = "featured" THEN (IF JsTruthy(flag) THEN "featured" ELSE "unfeatured")
  ELSE ""

\* The entry a handler passes to AuditLogModel.create.
AuditEntry(r) ==
  [userId |-> r.user,
   action |-> AuditAction(r.op),
   resourceType |-> "product",
   resourceId |-> r.id,
   details |-> [action |-> StateWord(r.op, r.body.flag),
                name |-> IF r.op = "delete" THEN r.seen ELSE r.body.name,
                slug |-> r.body.slug]]

\* The message of the success response.
SuccessMessage(r) ==
  CASE r.op = "create" -> "Product created successfully"
    [] r.op = "update" -> "Product updated successfully"
    [] r.op = "delete" -> "Product deleted successfully"
    [] OTHER -> "Product " \o StateWord(r.op, r.body.flag) \o " successfully"

\* AuditLogModel.create: one row more in audit_logs.
AuditLogCreate(log, entry) == Append(log, entry)

\* await AuditLogModel.create(...), then res.json({ success: true, ... }).
WriteAudit(h) ==
  LET r == handlers[h]
      entry == AuditEntry(r)
  IN  /\ r.pc = "audit"
      /\ audit' = AuditLogCreate(audit, entry)
      /\ handlers' = [handlers EXCEPT ![h] =
                        Done([r EXCEPT !.logged = <<entry>>], 200, SuccessMessage(r))]
      /\ UNCHANGED <<products, last, nRequests, searchVars>>

\* The store is unavailable when the audit entry is to be written: the
\* insert is rejected and the catch answers 500.
AuditFails(h) ==
  /\ handlers[h].pc = "audit"
  /\ handlers' = [handlers EXCEPT ![h] = Done(handlers[h], 500, InternalError)]
  /\ UNCHANGED <<products, audit, last, nRequests, searchVars>>

\* The connection is free for the next request.
Close(h) ==
  /\ handlers[h].pc = "done"
  /\ handlers' = [handlers EXCEPT ![h] = Idle]
  /\ UNCHANGED <<products, audit, last, nRequests, searchVars>>

RouteStep ==
  \/ \E h \in Connections, u \in Users \cup {NoUser}, b \in CreateBodies :
       PostProduct(h, u, b)
  \/ \E h \in Connections, u \in Users \cup {NoUser}, id \in ProductIds, b \in UpdateBodies :
       PatchProduct(h, u, id, b)
  \/ \E h \in Connections, u \in Users \cup {NoUser}, id \in ProductIds, b \in ToggleBodies :
       PatchToggle(h, u, id, b)
  \/ \E h \in Connections, u \in Users \cup {NoUser}, id \in ProductIds, b \in FeaturedBodies :
       PatchFeatured(h, u, id, b)
  \/ \E h \in Connections, u \in Users \cup {NoUser}, id \in ProductIds :
       DeleteRoute(h, u, id)
  \/ \E h \in Connections :
       \/ CheckSlug(h)
       \/ LookupProduct(h)
       \/ WriteCreate(h)
       \/ WriteUpdate(h)
       \/ WriteToggle(h)
       \/ WriteFeatured(h)
       \/ WriteDelete(h)
       \/ StatementFails(h)
       \/ WriteAudit(h)
       \/ AuditFails(h)
       \/ Close(h)

\* The product routes serving requests on two connections, the handlers
\* interleaving at their awaited calls.
SpecRoutes == Init /\ [][RouteStep]_vars

\* ---- The post routes: GET /, GET /:identifier, POST /, PUT /:identifier ----

\* What the post routes leave alone.
productVars ==
  <<products, pc, req, nQueries, rows, resp, last, nMutations, failure,
    audit, handlers>>

\* /^\d+$/.test(identifier)
IsNumeric(text) ==
  /\ text # <<>>
  /\ \A i \in 1..Len(text) : text[i] \in Digits

DigitValue ==
  ("0" :> 0) @@ ("1" :> 1) @@ ("2" :> 2) @@ ("3" :> 3) @@ ("4" :> 4) @@
  ("5" :> 5) @@ ("6" :> 6) @@ ("7" :> 7) @@ ("8" :> 8) @@ ("9" :> 9)

\* parseInt(identifier) of a text of decimal digits.
RECURSIVE ParseInt(_)
ParseInt(text) ==
  IF text = <<>> THEN 0
  ELSE 10 * ParseInt(SubSeq(text, 1, Len(text) - 1)) + DigitValue[text[Len(text)]]

\* findFirst by the identifier: a text of digits is an id, any other text a
\* slug.  ids and slugs are unique, so at most one row matches.
FindByIdentifier(table, identifier) ==
  IF IsNumeric(identifier)
  THEN {p \in table : p.id = ParseInt(identifier)}
  ELSE {p \in table : p.slug = identifier}

\* findFirst({ where: eq(posts.slug, slug) })
FindBySlug(table, slug) == {p \in table : p.slug = slug}

\* The unique constraint on posts.slug rejects a statement that would give
\* the row with this id a slug another row holds.
PostUniqueViolation(table, slug, id) ==
  \E p \in table : p.slug = slug /\ p.id # id

\* createPostSchema: title and slug are strings of at least one character,
\* published is a boolean when given.
CreatePostSchema(b) ==
  /\ b.title.given /\ b.title.text # <<>>
  /\ b.slug.given /\ b.slug.text # <<>>
  /\ b.published.type \in {"undefined", "boolean"}

\* updatePostSchema = createPostSchema.partial(): every field may be absent.
UpdatePostSchema(b) ==
  /\ b.title.given => b.title.text # <<>>
  /\ b.slug.given => b.slug.text # <<>>
  /\ b.published.type \in {"undefined", "boolean"}

\* Every sequence the store may return for ORDER BY ... DESC: the rows, each
\* once, no row before one that the order puts first.  The order is the
\* set of the pairs of rows that may come in this sequence.
Sorted(c, before) ==
  LET n == Cardinality(c)
  IN  {s \in [1..n -> c] :
         /\ \A i, j \in 1..n : i # j => s[i] # s[j]
         /\ \A i, j \in 1..n : i < j => <<s[i], s[j]>> \in before}

\* desc(posts.createdAt)
CreatedBefore(c) == {<<p, q>> \in c \X c : p.createdAt >= q.createdAt}

\* desc(posts.publishedAt): NULL sorts first in a descending order.
PublishedBefore(c) ==
  {<<p, q>> \in c \X c :
     \/ p.publishedAt = <<>>
     \/ q.publishedAt # <<>> /\ p.publishedAt[1] >= q.publishedAt[1]}

PublicPostsUnfiltered(table) == table

\* .where(eq(posts.published, true))
PublicPosts(table) == {p \in table : p.published}

\* The query of GET /: the published posts by publishedAt for a public
\* request, every post by createdAt otherwise.
SelectPosts(table, isPublic) ==
  IF isPublic
  THEN Sorted(PublicPosts(table), PublishedBefore(PublicPosts(table)))
  ELSE Sorted(table, CreatedBefore(table))

\* The row of POST /: published is body.published || false, publishedAt is
\* new Date() if body.published, else null; createdAt is defaultNow().
NewPost(id, b, t) ==
  Post(id, b.slug.text, JsTruthy(b.published),
       IF JsTruthy(b.published) THEN <<t>> ELSE <<>>, t)

\* .set({ ...body, updatedAt, publishedAt: body.published === true ?
\* new Date() : undefined }): an absent field keeps the column.
UpdatedPost(p, b, t) ==
  [p EXCEPT !.slug = IF b.slug.given THEN b.slug.text ELSE @,
            !.published = IF b.published.type = "boolean" THEN b.published.bool ELSE @,
            !.publishedAt = IF b.published = JBoolean(TRUE) THEN <<t>> ELSE @]

PostNotFound == "Post not found"
PostSlugExists == "Slug already exists"
ZodIssues == "ZodError issues"

\* The message of the catch of each handler.
FailureMessage(op) ==
  CASE op = "list" -> "Failed to fetch posts"
    [] op = "get" -> "Failed to fetch post"
    [] op = "create" -> "Failed to create post"
    [] op = "update" -> "Failed to update post"

\* The handler sends its answer; what it held of the request is dropped.
PostDone(r, status, message, data) ==
  [r EXCEPT !.pc = "answered",
            !.resp = [status |-> status, message |-> message, data |-> data],
            !.body = NoPostBody, !.seen = NoPost, !.identifier = <<>>]

\* A request reaches its handler (POST and PUT past authenticateToken and
\* requireEditor), which runs up to its first awaited call.
StartPost(h, r) ==
  /\ nRequests < MaxRequests
  /\ nRequests' = nRequests + 1
  /\ editors' = [editors EXCEPT ![h] = r]
  /\ UNCHANGED <<posts, clock, serial, productVars>>

\* GET /: isPublic = req.query.public === 'true'.
GetPosts(h, public) ==
  /\ editors[h].pc = "idle"
  /\ StartPost(h, [EditorIdle EXCEPT !.pc = "query", !.op = "list",
                                     !.public = public,
                                     !.isPublic = (public = "true")])

\* GET /:identifier
GetPost(h, identifier) ==
  /\ editors[h].pc = "idle"
  /\ StartPost(h, [EditorIdle EXCEPT !.pc = "find", !.op = "get",
                                     !.identifier = identifier])

\* POST /: createPostSchema.parse(req.body), a ZodError is answered 400.
CreatePost(h, body) ==
  /\ editors[h].pc = "idle"
  /\ LET r == [EditorIdle EXCEPT !.op = "create", !.body = body]
     IN  StartPost(h, IF CreatePostSchema(body) THEN [r EXCEPT !.pc = "check"]
                      ELSE PostDone(r, 400, ZodIssues, <<>>))

\* PUT /:identifier: updatePostSchema.parse(req.body), then the lookup.
UpdatePost(h, identifier, body) ==
  /\ editors[h].pc = "idle"
  /\ LET r == [EditorIdle EXCEPT !.op = "update", !.body = body,
                                 !.identifier = identifier]
     IN  StartPost(h, IF UpdatePostSchema(body) THEN [r EXCEPT !.pc = "find"]
                      ELSE PostDone(r, 400, ZodIssues, <<>>))

\* An awaited call of a post handler returns: the handler runs up to its
\* next awaited call or to its answer.
PostStep(h, r, table, t, n) ==
  /\ editors' = [editors EXCEPT ![h] = r]
  /\ posts' = table
  /\ clock' = t
  /\ serial' = n
  /\ UNCHANGED <<nRequests, productVars>>

\* const allPosts = await query; res.json(allPosts)
QueryPosts(h) ==
  LET r == editors[h]
  IN  /\ r.pc = "query"
      /\ \E s \in SelectPosts(posts, r.isPublic) :
           PostStep(h, PostDone(r, 200, "", s), posts, clock, serial)

\* The findFirst by identifier of GET /:identifier and PUT /:identifier:
\* 404 when no row is found.  PUT goes on to the slug lookup if
\* (body.slug && body.slug !== existingPost.slug), else to the update.
FindPost(h) ==
  LET r == editors[h]
      found == FindByIdentifier(posts, r.identifier)
      post == CHOOSE p \in found : TRUE
  IN  /\ r.pc = "find"
      /\ PostStep(h,
           IF found = {} THEN PostDone(r, 404, PostNotFound, <<>>)
           ELSE IF r.op = "get" THEN PostDone(r, 200, "", <<post>>)
           ELSE [r EXCEPT !.seen = post,
                          !.pc = IF r.body.slug.given /\ r.body.slug.text # post.slug
                                 THEN "check" ELSE "write"],
           posts, clock, serial)

\* The findFirst by slug of POST / and PUT /:identifier: 400 when a row has
\* the slug.
CheckPostSlug(h) ==
  LET r == editors[h]
  IN  /\ r.pc = "check"
      /\ PostStep(h,
           IF FindBySlug(posts, r.body.slug.text) # {}
           THEN PostDone([r EXCEPT !.clash = TRUE], 400, PostSlugExists, <<>>)
           ELSE [r EXCEPT !.pc = "write"],
           posts, clock, serial)

\* await db.insert(posts).values(...).returning(): the sequence gives the
\* id; the statement is rejected when a row holds the slug, and the catch
\* answers 500; else the row is stored and answered 201.
InsertPost(h) ==
  LET r == editors[h]
  IN  /\ r.pc = "write"
      /\ r.op = "create"
      /\ \E t \in {clock, clock + 1} :
           IF PostUniqueViolation(posts, r.body.slug.text, 0)
           THEN PostStep(h, PostDone([r EXCEPT !.clash = TRUE], 500,
                                     FailureMessage("create"), <<>>),
                         posts, t, serial + 1)
           ELSE PostStep(h, PostDone([r EXCEPT !.wrote = TRUE], 201, "",
                                     <<NewPost(serial + 1, r.body, t)>>),
                         posts \cup {NewPost(serial + 1, r.body, t)}, t, serial + 1)

\* await db.update(posts).set(...).where(eq(posts.id, existingPost.id))
\* .returning(): the statement is rejected when another row holds the new
\* slug, and the catch answers 500; else the row is replaced and answered.
UpdatePostRow(h) ==
  LET r == editors[h]
      old == CHOOSE p \in posts : p.id = r.seen.id
  IN  /\ r.pc = "write"
      /\ r.op = "update"
      /\ \E t \in {clock, clock + 1} :
           LET new == UpdatedPost(old, r.body, t)
           IN  IF PostUniqueViolation(posts, new.slug, old.id)
               THEN PostStep(h, PostDone([r EXCEPT !.clash = TRUE], 500,
                                         FailureMessage("update"), <<>>),
                             posts, t, serial)
               ELSE PostStep(h, PostDone([r EXCEPT !.wrote = TRUE], 200, "", <<new>>),
                             (posts \ {old}) \cup {new}, t, serial)

\* The store is unavailable: the awaited call is rejected and the catch of
\* the handler answers 500.
PostStatementFails(h) ==
  /\ editors[h].pc \in {"query", "find", "check", "write"}
  /\ PostStep(h, PostDone(editors[h], 500, FailureMessage(editors[h].op), <<>>),
              posts, clock, serial)

\* The answer has been sent: the connection takes the next request.
ClosePost(h) ==
  /\ editors[h].pc = "answered"
  /\ editors' = [editors EXCEPT ![h] = EditorIdle]
  /\ UNCHANGED <<posts, clock, serial, nRequests, productVars>>

\* The slugs, identifiers and bodies of the requests: a slug of letters and
\* a slug of digits, the identifiers that name them and the first ids.
PostSlugs == {<<"a">>, <<"2">>}
Identifiers == {<<"1">>, <<"2">>, <<"a">>}
PublicParams == {"true", "1", ""}
PostTitle == Given(<<"t">>)
PublishedFlags == {JUndefined, JBoolean(TRUE), JBoolean(FALSE)}

CreatePostBodies ==
  {PostBody(PostTitle, Given(s), f) : s \in PostSlugs, f \in PublishedFlags}
    \cup {PostBody(Given(<<>>), Given(<<"a">>), JUndefined)}

UpdatePostBodies ==
  {PostBody(NotGiven, s, f) :
     s \in {NotGiven} \cup {Given(x) : x \in PostSlugs}, f \in PublishedFlags}
    \cup {PostBody(NotGiven, Given(<<>>), JUndefined)}

PostsStep ==
  \/ \E h \in Connections, q \in PublicParams : GetPosts(h, q)
  \/ \E h \in Connections, i \in Identifiers : GetPost(h, i)
  \/ \E h \in Connections, b \in CreatePostBodies : CreatePost(h, b)
  \/ \E h \in Connections, i \in Identifiers, b \in UpdatePostBodies :
       UpdatePost(h, i, b)
  \/ \E h \in Connections :
       \/ QueryPosts(h)
       \/ FindPost(h)
       \/ CheckPostSlug(h)
       \/ InsertPost(h)
       \/ UpdatePostRow(h)
       \/ PostStatementFails(h)
       \/ ClosePost(h)

\* The post routes serving requests on two connections, the handlers
\* interleaving at their awaited calls.
SpecPosts == Init /\ [][PostsStep]_vars

\* ----------------------------------------------------------------- claims

RangeOf(seq) == {seq[i] : i \in 1..Len(seq)}

\* t is a prefix of s; t occurs in s: the literal readings of "starts with"
\* and "contains".
StartsWith(s, t) == Len(t) <= Len(s) /\ SubSeq(s, 1, Len(t)) = t
Contains(s, t) == \E i \in 0..(Len(s) - Len(t)) : SubSeq(s, i + 1, i + Len(t)) = t

RatioEq(r, s) == RatioCompare(r.num, r.den, s.num, s.den) = 0

\* The match the specification describes: strategy 1 as case-insensitive
\* containment of the query text, strategies 2 to 4 as in the query.
ContainmentMatch(p, query) ==
  \/ Contains(Lower(p.name), Lower(query))
  \/ Contains(Lower(Coalesce(p.description)), Lower(query))
  \/ Contains(Lower(Coalesce(p.shortDescription)), Lower(query))

DescribedMatch(p, query) ==
  \/ ContainmentMatch(p, query)
  \/ FullTextMatch(p, query)
  \/ TrigramMatch(p, query)
  \/ WordMatch(p, query)

\* The score the specification describes: the prefix and substring bonuses
\* for literal prefix and substring containment, the other terms as in the
\* query.
DescribedScore(p, query) ==
  ScoreSum((IF Lower(p.name) = Lower(query) THEN ExactMatchPoints ELSE 0)
             + (IF StartsWith(Lower(p.name), Lower(query)) THEN PrefixMatchPoints ELSE 0)
             + (IF Contains(Lower(p.name), Lower(query)) THEN SubstringMatchPoints ELSE 0),
           TsRank(RankDocument(p), TsQuery(query)),
           Similarity(Lower(p.name), Lower(query)),
           WordSimilarity(Lower(query), Lower(p.name)))

\* C1 (fails on the code): search returns exactly the products that pass
\* the active filter and satisfy one of the four described strategies, the
\* first being containment of the query text.  The query's % _ and \ act as
\* LIKE wildcards, so products are returned that contain no such text.
C1_ReturnsExactlyDescribedMatches ==
  pc = "returned" =>
    RangeOf(rows) = {p \in products : /\ ActiveFilter(p, req.includeInactive)
                                      /\ DescribedMatch(p, req.query)}

\* C2: a search with includeInactive = false returns only rows whose
\* isActive is true.
C2_InactiveNeverReturned ==
  (pc = "returned" /\ ~req.includeInactive) =>
    \A i \in 1..Len(rows) : rows[i].isActive

\* C2 witness: a search without inactive products has returned rows while an
\* inactive product that matches the query is in the table.
C2_Witness ==
  /\ pc = "returned"
  /\ ~req.includeInactive
  /\ rows # <<>>
  /\ \E p \in products : ~p.isActive /\ Matches(p, req.query)

\* C3: in the returned sequence the sort key never increases: a row before
\* another has a key at least as large, for the query of the request.
C3_OrderedByDescendingScore ==
  pc = "returned" =>
    \A i, j \in 1..Len(rows) :
      i < j => RatioGE(SortKey(rows[i], req.query), SortKey(rows[j], req.query))

\* C3 witness: two rows returned, the first with the strictly larger key.
C3_Witness ==
  /\ pc = "returned"
  /\ Len(rows) = 2
  /\ RatioGT(SortKey(rows[1], req.query), SortKey(rows[2], req.query))

\* C4 (fails on the code): the key that orders a returned row is the
\* described sum, with the prefix and substring bonuses given for literal
\* prefix and substring containment of the query text.
C4_SortKeyIsDescribedScore ==
  pc = "returned" =>
    \A i \in 1..Len(rows) :
      RatioEq(SortKey(rows[i], req.query), DescribedScore(rows[i], req.query))

\* C5 (fails on the code): a returned product that matches strategy 2 only
\* through its short description (the three-field document matches, the
\* document without the short description does not) has a full-text rank
\* term above 0.
C5_RankCountsShortDescription ==
  pc = "returned" =>
    \A i \in 1..Len(rows) :
      ( /\ FullTextMatch(rows[i], req.query)
        /\ ~TsMatch(TsVector(rows[i].name, "A")
                      \cup TsVector(Coalesce(rows[i].description), "B"),
                    TsQuery(req.query)) )
      => RankMultiplier * TsRank(RankDocument(rows[i]), TsQuery(req.query)) > 0

\* C6 (fails on the code): every product whose name equals the query up to
\* case is returned and has the exact-match term of 100.  Stated for the
\* products the active filter admits, the reading most favourable to the
\* code; it still fails for a name that the LIKE pattern built from it does
\* not match and that has no word character.
C6_ExactNameIsReturned ==
  pc = "returned" =>
    \A p \in products :
      (Lower(p.name) = Lower(req.query) /\ ActiveFilter(p, req.includeInactive))
      => (p \in RangeOf(rows) /\ ExactTerm(p, req.query) = ExactMatchPoints)

\* C7: on one table, what a search without inactive products returned is
\* among what the search for the same text with inactive products returns,
\* in whichever order the two are made.
C7_InactiveOnlyAdds ==
  (pc = "returned" /\ last.valid /\ last.query = req.query) =>
    /\ (~last.includeInactive /\ req.includeInactive)
         => RangeOf(last.rows) \subseteq RangeOf(rows)
    /\ (last.includeInactive /\ ~req.includeInactive)
         => RangeOf(rows) \subseteq RangeOf(last.rows)

\* C7 witness: after a search without inactive products that returned a
\* row, the same text searched with inactive products returns more rows.
C7_Witness ==
  /\ pc = "returned"
  /\ last.valid
  /\ last.query = req.query
  /\ ~last.includeInactive
  /\ req.includeInactive
  /\ last.rows # <<>>
  /\ Len(rows) > Len(last.rows)

\* C8 (fails on the code): a search repeated with the same text and flag on
\* an unchanged table returns the same sequence, rows of equal score in the
\* same order.  The statement orders by the score alone, so the store may
\* return rows of equal score in either order.
C8_RepeatedSearchSameSequence ==
  ( /\ pc = "returned"
    /\ last.valid
    /\ last.query = req.query
    /\ last.includeInactive = req.includeInactive )
  => rows = last.rows

\* A catalog statement is never held back by a search in progress, nor a
\* step of a search by the table: each is enabled by its own guard alone,
\* and the query of a search has an answer on the table as it is.
NeverBlocked ==
  /\ (nMutations < MaxMutations /\ Cardinality(products) < MaxProducts)
       => ENABLED (\E c \in Contents : CreateProduct(c))
  /\ (nMutations < MaxMutations /\ products # {})
       => /\ ENABLED (\E id \in ProductIds, d \in Updates : UpdateProduct(id, d))
          /\ ENABLED (\E id \in ProductIds, b \in BOOLEAN : ToggleActive(id, b))
          /\ ENABLED (\E id \in ProductIds : DeleteProduct(id))
  /\ pc = "idle" => ENABLED (\E q \in Queries, f \in BOOLEAN : Receive(q, f))
  /\ pc = "calling" =>
       /\ SearchResults(products, req.query, req.includeInactive) # {}
       /\ ENABLED StoreQueryFail

\* C9: search is read-only.  A step of a search (any step that moves the
\* handler or changes its request, rows or response) leaves the table as it
\* was; a step that changes the table leaves the search as it was; and
\* neither holds the other back.
C9_SearchIsReadOnly ==
  /\ [][ /\ (pc' # pc \/ req' # req \/ rows' # rows \/ resp' # resp)
              => products' = products
         /\ products' # products
              => (pc' = pc /\ req' = req /\ rows' = rows /\ resp' = resp) ]_vars
  /\ []NeverBlocked

\* C9 witness: a search has returned rows and the table has changed since
\* its query ran.
C9_Witness ==
  /\ pc = "returned"
  /\ rows # <<>>
  /\ ~(RangeOf(rows) \subseteq products)

\* C10: an invocation of search issues one query, whether the store answers
\* or rejects it: none before the call reaches the store, one from then on,
\* and still one when the handler has answered.
C10_ExactlyOneQuery ==
  /\ pc = "calling" => nQueries = 0
  /\ pc \in {"returned", "failed"} => nQueries = 1
  /\ (pc = "idle" /\ resp.status # 0) => nQueries = 1

\* C10 witness: the store rejected the query and the handler has answered
\* 500 after that one query.
C10_Witness ==
  /\ pc = "idle"
  /\ resp.status = 500
  /\ nQueries = 1

\* C11: when the store rejects the statement of a search, what the handler
\* catches is the store's error itself and search has handed over no row;
\* the handler then answers 500 with no product data, and no answer with
\* status 500 ever carries product data.
C11_StoreFailurePropagates ==
  /\ pc = "failed" =>
       /\ rows = <<>>
       /\ failure.raised \in StoreErrors
       /\ failure.caught = failure.raised
  /\ (pc = "idle" /\ failure # NoFailure) => resp = [status |-> 500, data |-> <<>>]
  /\ resp.status = 500 => resp.data = <<>>

\* C11 witness: a search on a table with a product that matches its text
\* was rejected by the store and the handler has answered.
C11_Witness ==
  /\ pc = "idle"
  /\ failure.raised \in StoreErrors
  /\ resp.status = 500
  /\ \E p \in products, q \in Queries : Truthy(q) /\ Matches(p, q)

\* Text that is empty or holds nothing but blanks.
IsBlank(text) == \A i \in 1..Len(text) : text[i] = " "

\* C12 (fails on the code): the handler never calls ProductModel.search
\* with a text that is empty or only whitespace.  The handler's test is the
\* truthiness of the parameter, which a text of blanks passes.
C12_NoBlankQueryReachesSearch ==
  pc \in {"calling", "returned"} => ~IsBlank(req.query)

\* C14: a search whose WHERE clause selects no row has an answer, the empty
\* sequence and nothing else, and that is what search returns, with or
\* without inactive products.
C14_NoMatchIsEmptySequence ==
  LET none == Candidates(products, req.query, req.includeInactive) = {}
  IN  /\ (pc = "calling" /\ none)
           => SearchResults(products, req.query, req.includeInactive) = {<<>>}
      /\ (pc = "returned" /\ none) => rows = <<>>

\* C14 witness: a search with inactive products on the empty table has
\* returned the empty sequence.
C14_Witness ==
  /\ pc = "returned"
  /\ products = {}
  /\ req.includeInactive
  /\ rows = <<>>

\* C15: for every product whose lower-cased name starts with the
\* lower-cased query, the sort key is at least the sum of the other five
\* terms, the prefix term left out.
C15_PrefixTermNeverLowers ==
  pc = "returned" =>
    \A p \in products :
      StartsWith(Lower(p.name), Lower(req.query)) =>
        RatioGE(SortKey(p, req.query),
                ScoreSum(ExactTerm(p, req.query) + SubstringTerm(p, req.query),
                         TsRank(RankDocument(p), TsQuery(req.query)),
                         Similarity(Lower(p.name), Lower(req.query)),
                         WordSimilarity(Lower(req.query), Lower(p.name))))

\* C15 witness: a returned row whose name starts with the query and whose
\* key is greater than the sum without the prefix term.
C15_Witness ==
  /\ pc = "returned"
  /\ \E i \in 1..Len(rows) :
       /\ StartsWith(Lower(rows[i].name), Lower(req.query))
       /\ PrefixTerm(rows[i], req.query) = PrefixMatchPoints
       /\ RatioGT(SortKey(rows[i], req.query),
                  ScoreSum(ExactTerm(rows[i], req.query) + SubstringTerm(rows[i], req.query),
                           TsRank(RankDocument(rows[i]), TsQuery(req.query)),
                           Similarity(Lower(rows[i].name), Lower(req.query)),
                           WordSimilarity(Lower(req.query), Lower(rows[i].name))))

\* C16: whenever search("slar pnel", false) has returned, every active
\* product named "Solar Panel X100" is among the rows; it is there through
\* the similarity strategies (its trigram or word similarity is above the
\* threshold, the pattern and the full-text strategies do not match); and
\* its score for "slar pnel" is below its score for "solar panel".
C16_TypoStillFindsProduct ==
  (pc = "returned" /\ req.query = TSlarPnel /\ ~req.includeInactive) =>
    \A p \in products :
      (p.name = TSolarPanelX100 /\ p.isActive) =>
        /\ p \in RangeOf(rows)
        /\ TrigramMatch(p, TSlarPnel) \/ WordMatch(p, TSlarPnel)
        /\ ~PatternMatch(p, TSlarPnel)
        /\ ~FullTextMatch(p, TSlarPnel)
        /\ RatioGT(SortKey(p, TSolarPanel), SortKey(p, TSlarPnel))

\* C16 witness: the misspelt search has returned the active "Solar Panel
\* X100" while the other two products of the scenario are in the table.
C16_Witness ==
  /\ pc = "returned"
  /\ req.query = TSlarPnel
  /\ ~req.includeInactive
  /\ Cardinality(products) = 3
  /\ \E i \in 1..Len(rows) : rows[i].name = TSolarPanelX100 /\ rows[i].isActive

\* The handlers that have answered.
Answered == {h \in Connections : handlers[h].pc = "done"}

\* C13: every stored product has a name, and the name is not empty.
C13_NameAlwaysPresent ==
  \A p \in products : p.name # NULL /\ p.name # Unset /\ Len(p.name) >= 1

\* C13 witness: a product whose name an update request has replaced is
\* stored, and a request has been answered 400 'Invalid input'.
C13_Witness ==
  /\ \E p \in products : p.name = Tz
  /\ \E h \in Answered : handlers[h].resp = [status |-> 400, message |-> "Invalid input"]

\* C17 (fails on the code): no two products share a slug; a create or
\* update request whose slug another product held, when the handler looked
\* it up or when the store ran the statement, has been answered 400
\* 'Product with this slug already exists', has changed no product and has
\* written no audit entry; and no update is answered so unless another
\* product held the slug.  Two requests for one free slug both pass the
\* lookup; the store rejects the second statement and the answer is 500.
C17_SlugConflictAnswered400 ==
  /\ \A p, q \in products : p.slug = q.slug => p.id = q.id
  /\ \A h \in Answered :
       LET r == handlers[h]
       IN  /\ (r.op \in {"create", "update"} /\ r.clash) =>
                /\ r.resp = [status |-> 400, message |-> SlugExists]
                /\ ~r.wrote
                /\ r.logged = <<>>
           /\ r.resp.message = SlugExists => r.clash

\* The action the claim pairs with each route.
MatchingAction(op) ==
  IF op = "create" THEN "create" ELSE IF op = "delete" THEN "delete" ELSE "update"

\* C18: a request answered with success has written one audit entry, which
\* is in the log and carries the user's id, the action matching the route,
\* the resource type 'product' and the product's id; a request answered
\* 400, 401 or 404 has written none; and the log changes only by the one
\* entry of a request that is answered with success in the same step.
C18_OneAuditEntryPerSuccess ==
  /\ [](\A h \in Answered :
         LET r == handlers[h]
         IN  /\ r.resp.status = 200 =>
                  /\ Len(r.logged) = 1
                  /\ \E i \in 1..Len(audit) : audit[i] = r.logged[1]
                  /\ r.logged[1].userId = r.user
                  /\ r.user \in Users
                  /\ r.logged[1].action = MatchingAction(r.op)
                  /\ r.logged[1].resourceType = "product"
                  /\ r.logged[1].resourceId = r.id
                  /\ r.id \in ProductIds
             /\ r.resp.status \in {400, 401, 404} => r.logged = <<>>)
  /\ [][audit' # audit =>
          \E h \in Connections :
            /\ handlers[h].pc = "audit"
            /\ handlers'[h].pc = "done"
            /\ handlers'[h].resp.status = 200
            /\ audit' = Append(audit, handlers'[h].logged[1])]_vars

\* C18 witness: a delete request has been answered with success after a
\* create request, and the log holds the entries of both.
C18_Witness ==
  /\ Len(audit) = 2
  /\ audit[1].action = "create"
  /\ audit[2].action = "delete"
  /\ \E h \in Answered : handlers[h].op = "delete" /\ handlers[h].resp.status = 200

\* C19 (fails on the code): a request answered 500 has not changed the
\* products table, and a request has changed the table exactly if it has
\* written its audit entry.  The two statements are awaited one after the
\* other outside any transaction: when the second is rejected the first
\* stays.
C19_Status500LeavesTableUnchanged ==
  \A h \in Answered :
    /\ handlers[h].resp.status = 500 => ~handlers[h].wrote
    /\ handlers[h].wrote <=> handlers[h].logged # <<>>

\* C20 (fails on the code): when PATCH /:id/toggle has been answered with
\* success, the isActive its statement left in the row is the state the
\* message and the audit entry name.
C20_ToggleStateMatchesMessage ==
  \A h \in Answered :
    (handlers[h].op = "toggle" /\ handlers[h].resp.status = 200) =>
      /\ handlers[h].stored
            = (handlers[h].resp.message = "Product activated successfully")
      /\ handlers[h].stored = (handlers[h].logged[1].details.action = "activated")

\* C21: GET /api/products returns an inactive product only when the request
\* says includeInactive=true, in each of its four branches, and the branch
\* is chosen with the priority search, featured, subcategoryId, all: a
\* request with a search text is answered by the search; without one, a
\* featured request is answered with featured active products, at most
\* limit of them; without either, a request that names a subcategory is
\* answered with exactly the admitted products of that subcategory; any
\* other request is answered with exactly the admitted products.
C21_Admitted(p) == req.includeInactive \/ p.isActive

C21_InactiveOnlyWhenAsked ==
  pc \in {"returned", "listed"} =>
    /\ \A i \in 1..Len(rows) : ~rows[i].isActive => req.includeInactive
    /\ RangeOf(rows) \subseteq products
    /\ (req.query # <<>>) = (pc = "returned")
    /\ (req.query = <<>> /\ req.featured) =>
         /\ \A i \in 1..Len(rows) : rows[i].isFeatured /\ rows[i].isActive
         /\ Len(rows) <= req.limit
    /\ (req.query = <<>> /\ ~req.featured /\ req.subcategoryId # "") =>
         RangeOf(rows) = {p \in products : /\ p.subcategoryId = req.subcategoryId
                                          /\ C21_Admitted(p)}
    /\ (req.query = <<>> /\ ~req.featured /\ req.subcategoryId = "") =>
         RangeOf(rows) = {p \in products : C21_Admitted(p)}

\* A listing by subcategory with includeInactive=true returns an inactive
\* product of a table that also holds a product of another subcategory.
C21_Witness ==
  /\ pc = "listed"
  /\ req.includeInactive /\ ~req.featured /\ req.subcategoryId # ""
  /\ \E i \in 1..Len(rows) : ~rows[i].isActive
  /\ \E p \in products : p.subcategoryId # req.subcategoryId

\* The connections whose post request has been answered.
PostAnswered == {h \in Connections : editors[h].pc = "answered"}

\* C22 (fails on the code): after any interleaving of post creates and
\* updates no two posts share a slug, and a create or a slug-changing
\* update whose slug another post held, when the handler looked it up or
\* when the store ran the statement, has been answered 400 'Slug already
\* exists' and has changed no post.  Two requests for one free slug both
\* pass the lookup; the store rejects the second statement and the answer
\* is 500.
C22_PostSlugConflictAnswered400 ==
  /\ \A p, q \in posts : p.slug = q.slug => p.id = q.id
  /\ \A h \in PostAnswered :
       LET r == editors[h]
       IN  (r.op \in {"create", "update"} /\ r.clash) =>
             /\ r.resp = [status |-> 400, message |-> PostSlugExists, data |-> <<>>]
             /\ ~r.wrote

\* The decimal text of a positive id.
DigitChars == <<"0", "1", "2", "3", "4", "5", "6", "7", "8", "9">>

RECURSIVE DecimalText(_)
DecimalText(n) ==
  IF n < 10 THEN <<DigitChars[n + 1]>>
  ELSE DecimalText(n \div 10) \o <<DigitChars[(n % 10) + 1]>>

\* The posts an identifier names: by its id or by its slug.
C23_Named(identifier) ==
  {p \in posts : DecimalText(p.id) = identifier \/ p.slug = identifier}

\* C23 (fails on the code): GET and PUT /api/posts/:identifier address a
\* post by slug or by id: when the lookup of the handler returns, every
\* stored post whose id or whose slug is the identifier is the post found,
\* and the request is answered 404 only when no post has that id or slug.
\* A slug of digits is never looked up as a slug.
C23_FoundByIdOrSlug ==
  [][\A h \in Connections :
       (/\ editors[h].pc = "find"
        /\ editors'[h].pc # "find"
        /\ editors'[h].resp.status # 500) =>
         LET found == IF editors[h].op = "get" THEN editors'[h].resp.data
                      ELSE IF editors'[h].resp.status = 404 THEN <<>>
                      ELSE <<editors'[h].seen>>
         IN  /\ \A p \in C23_Named(editors[h].identifier) : found = <<p>>
             /\ editors'[h].resp.status = 404 =>
                  C23_Named(editors[h].identifier) = {}]_vars

\* C24: GET /api/posts with public=true returns the published posts and
\* only them, ordered by publishedAt descending; without public=true it
\* returns all posts ordered by createdAt descending.
C24_ListReturned(h) ==
  /\ editors[h].pc = "query"
  /\ editors'[h].pc = "answered"
  /\ editors'[h].resp.status = 200

C24_PublicListsPublished ==
  [][\A h \in Connections : C24_ListReturned(h) =>
       LET d == editors'[h].resp.data
       IN  /\ \A i, j \in 1..Len(d) : i # j => d[i] # d[j]
           /\ IF editors[h].public = "true"
              THEN /\ RangeOf(d) = {p \in posts : p.published}
                   /\ \A i, j \in 1..Len(d) :
                        i < j => d[i].publishedAt[1] >= d[j].publishedAt[1]
              ELSE /\ RangeOf(d) = posts
                   /\ \A i, j \in 1..Len(d) :
                        i < j => d[i].createdAt >= d[j].createdAt]_vars

\* A public listing has returned two posts published at different times.
C24_Witness ==
  \E h \in PostAnswered :
    LET r == editors[h]
    IN  /\ r.op = "list" /\ r.public = "true" /\ r.resp.status = 200
        /\ Len(r.resp.data) = 2
        /\ r.resp.data[1].publishedAt # r.resp.data[2].publishedAt

\* C25 (fails on the code): PUT /api/posts/:identifier changes publishedAt
\* only when it changes published from false to true: every other update,
\* one that sends published: true for a post already published included,
\* leaves publishedAt as it was; and every post with published = true has
\* a publishedAt that is not null.  The handler sets publishedAt whenever
\* the body says published: true, whatever the post's state.
C25_Updated(h) ==
  /\ editors[h].pc = "write"
  /\ editors[h].op = "update"
  /\ editors'[h].wrote

C25_PublishedAtSetOnPublishOnly ==
  /\ [](\A p \in posts : p.published => p.publishedAt # <<>>)
  /\ [][\A h \in Connections : C25_Updated(h) =>
          \A old \in posts, new \in posts' :
            (old.id = editors[h].seen.id /\ new.id = old.id
               /\ new.publishedAt # old.publishedAt) =>
              (~old.published /\ new.published)]_vars

====
